---------------------------- MODULE Spec2Model ----------------------------
(***************************************************************************)
(* Model of the budibase grid data-access core:                            *)
(*   - the reactive controller  (grid/stores/table.js, initialise)         *)
(*   - the query fetch          (fetch/QueryFetch.js, getData)             *)
(*   - the query definition     (fetch/QueryFetch.js, getDefinition)       *)
(*   - the backend adapter      (AirtableIntegration)                      *)
(* Spec         : the reactive controller and its environment.             *)
(* SpecData     : one QueryFetch instance executing getData.               *)
(* SpecDefn     : getDefinition, enrichPagination, determineFeatureFlags.  *)
(* SpecAdapter  : one operation of the adapter against a backend.          *)
(* SpecTraverse : getData called page after page until no page is left.    *)
(***************************************************************************)
EXTENDS Integers, Sequences, FiniteSets, TLC

VARIABLES
  \* ---- reactive controller (table.js) ----
  datasource,      \* value of the datasource store
  fetch,           \* value of the fetch store (the current fetch instance)
  nextFetchId,     \* identity of the next fetch instance to be created
  filter,          \* value of the filter store
  sort,            \* value of the sort store
  filterSubs,      \* subscribers of the filter store, in subscription order
  sortSubs,        \* subscribers of the sort store, in subscription order
  unsubscribers,   \* table.js:66, the handles kept by initialise
  pending,         \* per fetch instance: update calls not yet settled
  error,           \* a handler raised a TypeError
  epoch,           \* number of datasource emissions so far
  filterEpoch,     \* epoch in which the filter value was set
  sortEpoch,       \* epoch in which the sort value was set
  calls,           \* fetch.update calls made by the last step
  invoked,         \* subscriber callbacks invoked by the last step
  lastStep,        \* name of the last step
  firstFilterPush, \* first filter update pushed since the last emission
  firstSortPush,   \* first sort update pushed since the last emission
  \* ---- query fetch (QueryFetch.js) ----
  options,         \* this.options: datasource, limit, paginate
  definition,      \* get(this.store).definition
  cursor,          \* get(this.store).cursor
  pc,              \* position of getData: idle / awaiting / done
  inflight,        \* locals of getData held across the await
  result,          \* how the last getData call settled
  chain,           \* cursors returned by successive fed-back page fetches
  fresh,           \* the cursor changed since the last getData call
  \* ---- full traversal by the caller of getData ----
  travTotal,       \* rows the backend holds
  travReceived,    \* rows returned so far, in order of arrival
  travFetches,     \* getData calls answered so far
  \* ---- query definition (QueryFetch.js, getDefinition) ----
  defDatasource,   \* the datasource passed in, with its fields object
  defOptions,      \* this.options: limit, paginate
  defObject,       \* the definition object fetched from the service
  defPc,           \* position of getDefinition
  defBefore,       \* the definition and datasource as they were before enrichment
  defApi,          \* calls made to the services and how they ended
  defResult,       \* what getDefinition returned
  defFeatures,     \* what determineFeatureFlags returned
  \* ---- backend adapter (AirtableIntegration) ----
  adOp,            \* the operation called and its arguments
  adPc,            \* position of the operation
  adRecords,       \* read: the records accumulated so far
  adBackend,       \* what the backend holds and how it answers
  adResult,        \* how the operation settled
  adLog            \* number of console.error calls

ctlVars == <<datasource, fetch, nextFetchId, filter, sort, filterSubs,
             sortSubs, unsubscribers, pending, error, epoch, filterEpoch,
             sortEpoch, calls, invoked, lastStep, firstFilterPush,
             firstSortPush>>
dataVars == <<options, definition, cursor, pc, inflight, result, chain, fresh>>
travVars == <<travTotal, travReceived, travFetches>>
defVars == <<defDatasource, defOptions, defObject, defPc, defBefore, defApi,
             defResult, defFeatures>>
adVars == <<adOp, adPc, adRecords, adBackend, adResult, adLog>>
vars == <<ctlVars, dataVars, travVars, defVars, adVars>>
notCtlVars == <<dataVars, travVars, defVars, adVars>>
notDataVars == <<ctlVars, travVars, defVars, adVars>>

-----------------------------------------------------------------------------
(* Bounds of the model *)
MaxEmissions == 3
MaxFetches == 2
MaxPending == 2
MaxPage == 4
MaxLimit == 2
MaxRows == 3

-----------------------------------------------------------------------------
(* JavaScript values *)
Undefined == [t |-> "undefined", n |-> 0, s |-> ""]
Null == [t |-> "null", n |-> 0, s |-> ""]
NaN == [t |-> "NaN", n |-> 0, s |-> ""]
Num(k) == [t |-> "number", n |-> k, s |-> ""]
Str(x) == [t |-> "string", n |-> 0, s |-> x]
Bool(b) == [t |-> "boolean", n |-> IF b THEN 1 ELSE 0, s |-> ""]

\* ToBoolean: undefined, null, NaN, 0, "" and false are falsy
Truthy(v) ==
  CASE v.t = "number" -> v.n # 0
    [] v.t = "string" -> v.s # ""
    [] v.t = "boolean" -> v.n = 1
    [] OTHER -> FALSE

\* v == null (loose): true of null and undefined only
IsNullish(v) == v.t \in {"undefined", "null"}

\* a || b
Or(a, b) == IF Truthy(a) THEN a ELSE b

\* parseInt of the decimal strings of the model
DigitString == [s \in {"1", "2", "3", "4", "5"} |->
                  CASE s = "1" -> 1 [] s = "2" -> 2 [] s = "3" -> 3
                    [] s = "4" -> 4 [] OTHER -> 5]

parseInt(v) ==
  CASE v.t = "number" -> v
    [] v.t = "string" /\ v.s \in DOMAIN DigitString -> Num(DigitString[v.s])
    [] OTHER -> NaN


-----------------------------------------------------------------------------
(* Query fetch: values *)

ParamNames == {"a", "b"}

\* An object with none of the parameter names as a key
NoParams == [n \in ParamNames |-> Undefined]

\* datasource.parameters: [{name, default}, ...]
ParamA == [name |-> "a", default |-> Num(5)]
ParamB == [name |-> "b", default |-> Str("d")]
ParameterLists == { << >>, <<ParamA>>, <<ParamA, ParamB>> }

\* datasource.queryParams: the values the caller supplied (undefined: no such key)
QueryParamObjects ==
  { [n \in ParamNames |-> IF n = "a" THEN va ELSE vb] :
      va \in {Undefined, Num(0), Num(7), Str(""), Bool(FALSE)},
      vb \in {Undefined, Num(7)} }

NoQueryDatasource ==
  [isNull |-> TRUE, id |-> "undefined", hasParameters |-> FALSE,
   parameters |-> << >>, hasQueryParams |-> FALSE, queryParams |-> NoParams]

QueryDatasources ==
  { NoQueryDatasource }
  \cup { [isNull |-> FALSE, id |-> "q1", hasParameters |-> hp,
          parameters |-> IF hp THEN pl ELSE << >>,
          hasQueryParams |-> hq,
          queryParams |-> IF hq THEN qp ELSE NoParams] :
           hp \in BOOLEAN, pl \in ParameterLists,
           hq \in BOOLEAN, qp \in QueryParamObjects }

\* A definition as determineFeatureFlags and getData read it: definition,
\* definition.fields, definition.fields.pagination and its three attributes;
\* a missing level reads as undefined throughout
NoDefinition ==
  [isNull |-> TRUE, hasFields |-> FALSE, hasPagination |-> FALSE,
   type |-> "undefined", location |-> "undefined", pageParam |-> "undefined"]

Definitions ==
  { NoDefinition,
    [NoDefinition EXCEPT !.isNull = FALSE],
    [NoDefinition EXCEPT !.isNull = FALSE, !.hasFields = TRUE] }
  \cup { [isNull |-> FALSE, hasFields |-> TRUE, hasPagination |-> TRUE,
          type |-> ty, location |-> lo, pageParam |-> pp] :
           ty \in {"undefined", "page", "cursor"},
           lo \in {"undefined", "query"},
           pp \in {"undefined", "page"} }

Limits == 0..MaxLimit

\* data: the first k rows of the backend
Rows(k) == [i \in 1..k |-> i]

BackendCursors == { Undefined, Null, Str(""), Str("c1"), Num(0) }

\* What executeQuery resolves with: nothing at all, or {data?, pagination?}
NoResponse ==
  [isNull |-> TRUE, hasData |-> FALSE, data |-> << >>,
   hasPagination |-> FALSE, cursor |-> Undefined]

Responses ==
  { NoResponse }
  \cup { [isNull |-> FALSE, hasData |-> hd, data |-> IF hd THEN Rows(k) ELSE << >>,
          hasPagination |-> hp, cursor |-> IF hp THEN c ELSE Undefined] :
           hd \in BOOLEAN, k \in 0..MaxRows, hp \in BOOLEAN, c \in BackendCursors }

NoResult ==
  [status |-> "none", rows |-> << >>, cursor |-> Undefined, hasNextPage |-> FALSE]

NoPayload ==
  [queryId |-> "undefined", parameters |-> NoParams, hasPagination |-> FALSE,
   page |-> Undefined, limit |-> 0]

\* No getData call made yet
NoCall ==
  [called |-> FALSE, sent |-> FALSE, api |-> "none", payload |-> NoPayload,
   type |-> "undefined", paginated |-> FALSE, callCursor |-> Null,
   fresh |-> FALSE, hadParameters |-> FALSE, suppliedParams |-> NoParams,
   queryParamsBefore |-> NoParams, response |-> NoResponse]

\* No traversal is running
TravParked ==
  /\ travTotal = 0
  /\ travReceived = << >>
  /\ travFetches = 0

\* getDefinition is not running
DefParked ==
  /\ defDatasource = "parked"
  /\ defOptions = "parked"
  /\ defObject = "parked"
  /\ defPc = "parked"
  /\ defBefore = "parked"
  /\ defApi = "parked"
  /\ defResult = "parked"
  /\ defFeatures = "parked"

\* The adapter is not running
AdParked ==
  /\ adOp = "parked"
  /\ adPc = "parked"
  /\ adRecords = << >>
  /\ adBackend = "parked"
  /\ adResult = "parked"
  /\ adLog = 0

\* The query fetch is not running while the controller is studied
DataParked ==
  /\ options = [datasource |-> NoQueryDatasource, limit |-> 0, paginate |-> FALSE]
  /\ definition = NoDefinition
  /\ cursor = Null
  /\ pc = "parked"
  /\ inflight = NoCall
  /\ result = NoResult
  /\ chain = << >>
  /\ fresh = FALSE

-----------------------------------------------------------------------------
(* Reactive controller: values of the stores *)

\* Absent fields of a datasource read as undefined; a null datasource reads
\* as undefined in every field ($datasource?.type, $datasource?.tableId).
NoDatasource == [type |-> "undefined", tableId |-> "undefined"]

Datasources ==
  { NoDatasource,
    [type |-> "table", tableId |-> "t1"],
    [type |-> "table", tableId |-> "t2"],
    [type |-> "table", tableId |-> ""],
    [type |-> "query", tableId |-> "t1"] }

\* The fetch store holds null (id 0) or a fetch instance bound to a datasource
NoFetch == [id |-> 0, datasource |-> NoDatasource]

\* $fetch?.options?.datasource?.tableId
FetchTableId(f) == IF f.id = 0 THEN "undefined" ELSE f.datasource.tableId

EmptyFilter == << >>
Filters == { EmptyFilter, <<"f1">> }

DefaultSort == [column |-> "null", order |-> "ascending"]
Sorts ==
  { DefaultSort,
    [column |-> "c1", order |-> "descending"],
    [column |-> "c1", order |-> ""] }

NoPush == [pushed |-> FALSE, filter |-> EmptyFilter,
           sortOrder |-> "", sortColumn |-> ""]

\* The controller's view of the world, threaded through the synchronous
\* store notifications of one step
Ctl ==
  [ filter |-> filter, sort |-> sort, filterSubs |-> filterSubs,
    sortSubs |-> sortSubs, unsubscribers |-> unsubscribers,
    pending |-> pending, error |-> error, epoch |-> epoch,
    filterEpoch |-> filterEpoch, sortEpoch |-> sortEpoch,
    calls |-> << >>, invoked |-> << >>,
    firstFilterPush |-> firstFilterPush, firstSortPush |-> firstSortPush ]

Remove(seq, x) == SelectSeq(seq, LAMBDA y : y # x)

PendingTotal(p) ==
  LET RECURSIVE Sum(_)
      Sum(i) == IF i = 0 THEN 0 ELSE p[i] + Sum(i - 1)
  IN Sum(MaxFetches)

isDatasourceValid(ds) == ds.type = "table" /\ ds.tableId \notin {"undefined", ""}

\* $fetch.update(...): the call starts an asynchronous update of that fetch
\* instance, outstanding until it settles
FetchUpdate(c, f, call) ==
  [c EXCEPT !.pending[f.id] = @ + 1,
            !.calls = Append(@, [call EXCEPT !.pendingBefore = c.pending[f.id]])]

FilterCall(c, sub, f) ==
  [ kind |-> "filter", fetch |-> f.id, fetchTableId |-> FetchTableId(f),
    subTableId |-> sub.tableId, subEpoch |-> sub.epoch,
    filter |-> c.filter, sortOrder |-> "", sortColumn |-> "",
    valEpoch |-> c.filterEpoch, pendingBefore |-> 0 ]

SortCall(c, sub, f) ==
  [ kind |-> "sort", fetch |-> f.id, fetchTableId |-> FetchTableId(f),
    subTableId |-> sub.tableId, subEpoch |-> sub.epoch,
    filter |-> EmptyFilter,
    sortOrder |-> IF c.sort.order # "" THEN c.sort.order ELSE "ascending",
    sortColumn |-> c.sort.column,
    valEpoch |-> c.sortEpoch, pendingBefore |-> 0 ]

\* Faulty variant: the callbacks push without looking at the current fetch
IsCorrectFetchUnguarded(f, sub) == TRUE

\* The guard of both callbacks: is the current fetch the one of $datasource
IsCorrectFetch(f, sub) == FetchTableId(f) = sub.tableId

\* table.js:86-95, the callback given to filter.subscribe
FilterHandler(c, sub, f) ==
  LET c1 == [c EXCEPT !.invoked = Append(@, sub)]
      call == FilterCall(c1, sub, f)
  IN IF ~IsCorrectFetch(f, sub) THEN c1
     ELSE IF f.id = 0 THEN [c1 EXCEPT !.error = TRUE]
     ELSE [FetchUpdate(c1, f, call) EXCEPT
             !.firstFilterPush =
                IF @.pushed THEN @ ELSE [NoPush EXCEPT !.pushed = TRUE,
                                                       !.filter = call.filter]]

\* table.js:100-110, the callback given to sort.subscribe
SortHandler(c, sub, f) ==
  LET c1 == [c EXCEPT !.invoked = Append(@, sub)]
      call == SortCall(c1, sub, f)
  IN IF ~IsCorrectFetch(f, sub) THEN c1
     ELSE IF f.id = 0 THEN [c1 EXCEPT !.error = TRUE]
     ELSE [FetchUpdate(c1, f, call) EXCEPT
             !.firstSortPush =
                IF @.pushed THEN @ ELSE [NoPush EXCEPT !.pushed = TRUE,
                                                       !.sortOrder = call.sortOrder,
                                                       !.sortColumn = call.sortColumn]]

Handler(c, sub, f) ==
  IF sub.store = "filter" THEN FilterHandler(c, sub, f) ELSE SortHandler(c, sub, f)

\* A store notifies its subscribers synchronously, in subscription order
RECURSIVE Notify(_, _, _)
Notify(c, subs, f) ==
  IF subs = << >> THEN c
  ELSE Notify(Handler(c, Head(subs), f), Tail(subs), f)

\* filter.set(v): arrays are never "equal" to the old value, so every set notifies
FilterSet(c, v, f) ==
  Notify([c EXCEPT !.filter = v, !.filterEpoch = c.epoch], c.filterSubs, f)

\* sort.set(v)
SortSet(c, v, f) ==
  Notify([c EXCEPT !.sort = v, !.sortEpoch = c.epoch], c.sortSubs, f)

\* unsubscribers.push(store.subscribe(callback)): the callback is registered,
\* run at once with the store's current value, and its handle is kept
Subscribe(c, sub, f) ==
  LET c1 == IF sub.store = "filter"
            THEN [c EXCEPT !.filterSubs = Append(@, sub)]
            ELSE [c EXCEPT !.sortSubs = Append(@, sub)]
      c2 == Handler(c1, sub, f)
  IN [c2 EXCEPT !.unsubscribers = Append(@, sub)]

\* table.js:71-72
RECURSIVE Unsubscribe(_, _)
Unsubscribe(c, handles) ==
  IF handles = << >> THEN c
  ELSE LET h == Head(handles)
           c1 == IF h.store = "filter"
                 THEN [c EXCEPT !.filterSubs = Remove(@, h)]
                 ELSE [c EXCEPT !.sortSubs = Remove(@, h)]
       IN Unsubscribe(c1, Tail(handles))

\* Faulty variant: the handles are dropped without being called
ClearSubscriptionsLeak(c) == [c EXCEPT !.unsubscribers = << >>]

ClearSubscriptions(c) ==
  [Unsubscribe(c, c.unsubscribers) EXCEPT !.unsubscribers = << >>]

\* table.js:78-82
WipeState(c, f) == SortSet(FilterSet(c, EmptyFilter, f), DefaultSort, f)

\* table.js:85-111
InstallSubscriptions(c, ds, f) ==
  LET fsub == [store |-> "filter", tableId |-> ds.tableId, epoch |-> c.epoch]
      ssub == [store |-> "sort", tableId |-> ds.tableId, epoch |-> c.epoch]
  IN Subscribe(Subscribe(c, fsub, f), ssub, f)

\* Faulty variant: the new subscriptions are installed before the state is wiped
DatasourceHandlerInstallFirst(c, ds, f) ==
  LET c0 == [c EXCEPT !.epoch = @ + 1,
                      !.firstFilterPush = NoPush, !.firstSortPush = NoPush]
      c1 == ClearSubscriptions(c0)
  IN IF ~isDatasourceValid(ds) THEN c1
     ELSE WipeState(InstallSubscriptions(c1, ds, f), f)

\* table.js:69-112, the callback given to datasource.subscribe
DatasourceHandler(c, ds, f) ==
  LET c0 == [c EXCEPT !.epoch = @ + 1,
                      !.firstFilterPush = NoPush, !.firstSortPush = NoPush]
      c1 == ClearSubscriptions(c0)
  IN IF ~isDatasourceValid(ds) THEN c1
     ELSE InstallSubscriptions(WipeState(c1, f), ds, f)

-----------------------------------------------------------------------------
(* Reactive controller: steps *)

\* The context handed to initialise: empty stores, no fetch yet
Ctl0 ==
  [ filter |-> EmptyFilter, sort |-> DefaultSort, filterSubs |-> << >>,
    sortSubs |-> << >>, unsubscribers |-> << >>,
    pending |-> [i \in 1..MaxFetches |-> 0], error |-> FALSE, epoch |-> 0,
    filterEpoch |-> 0, sortEpoch |-> 0, calls |-> << >>, invoked |-> << >>,
    firstFilterPush |-> NoPush, firstSortPush |-> NoPush ]

\* The controller's variables after a step that left it in c
Becomes(c) ==
  /\ filter' = c.filter
  /\ sort' = c.sort
  /\ filterSubs' = c.filterSubs
  /\ sortSubs' = c.sortSubs
  /\ unsubscribers' = c.unsubscribers
  /\ pending' = c.pending
  /\ error' = c.error
  /\ epoch' = c.epoch
  /\ filterEpoch' = c.filterEpoch
  /\ sortEpoch' = c.sortEpoch
  /\ calls' = c.calls
  /\ invoked' = c.invoked
  /\ firstFilterPush' = c.firstFilterPush
  /\ firstSortPush' = c.firstSortPush

\* initialise(context): datasource.subscribe runs the callback at once with the
\* datasource the store holds at that time
CtlInit ==
  \E ds \in Datasources :
    LET c == DatasourceHandler(Ctl0, ds, NoFetch) IN
      /\ datasource = ds
      /\ fetch = NoFetch
      /\ nextFetchId = 1
      /\ filter = c.filter
      /\ sort = c.sort
      /\ filterSubs = c.filterSubs
      /\ sortSubs = c.sortSubs
      /\ unsubscribers = c.unsubscribers
      /\ pending = c.pending
      /\ error = c.error
      /\ epoch = c.epoch
      /\ filterEpoch = c.filterEpoch
      /\ sortEpoch = c.sortEpoch
      /\ calls = c.calls
      /\ invoked = c.invoked
      /\ firstFilterPush = c.firstFilterPush
      /\ firstSortPush = c.firstSortPush
      /\ lastStep = "emit"

Init == CtlInit /\ DataParked /\ TravParked /\ DefParked /\ AdParked

\* The datasource store emits ds
EmitDatasource(ds) ==
  /\ epoch < MaxEmissions
  /\ PendingTotal(pending) < MaxPending
  /\ datasource' = ds
  /\ Becomes(DatasourceHandler(Ctl, ds, fetch))
  /\ lastStep' = "emit"
  /\ UNCHANGED <<fetch, nextFetchId>>
  /\ UNCHANGED notCtlVars

\* The user (or any other component) changes the filter
ChangeFilter(v) ==
  /\ PendingTotal(pending) < MaxPending
  /\ Becomes(FilterSet(Ctl, v, fetch))
  /\ lastStep' = "filter"
  /\ UNCHANGED <<datasource, fetch, nextFetchId>>
  /\ UNCHANGED notCtlVars

\* The user (or any other component) changes the sort
ChangeSort(v) ==
  /\ PendingTotal(pending) < MaxPending
  /\ Becomes(SortSet(Ctl, v, fetch))
  /\ lastStep' = "sort"
  /\ UNCHANGED <<datasource, fetch, nextFetchId>>
  /\ UNCHANGED notCtlVars

\* The fetch store is given a new fetch instance bound to ds
ReplaceFetch(ds) ==
  /\ nextFetchId <= MaxFetches
  /\ fetch' = [id |-> nextFetchId, datasource |-> ds]
  /\ nextFetchId' = nextFetchId + 1
  /\ Becomes(Ctl)
  /\ lastStep' = "fetch"
  /\ UNCHANGED datasource
  /\ UNCHANGED notCtlVars

\* The fetch store is emptied
ClearFetch ==
  /\ fetch # NoFetch
  /\ fetch' = NoFetch
  /\ Becomes(Ctl)
  /\ lastStep' = "fetch"
  /\ UNCHANGED <<datasource, nextFetchId>>
  /\ UNCHANGED notCtlVars

\* An update call made to fetch instance i settles
SettleUpdate(i) ==
  /\ pending[i] > 0
  /\ Becomes([Ctl EXCEPT !.pending[i] = @ - 1])
  /\ lastStep' = "settle"
  /\ UNCHANGED <<datasource, fetch, nextFetchId>>
  /\ UNCHANGED notCtlVars

Next ==
  \/ \E ds \in Datasources : EmitDatasource(ds)
  \/ \E v \in Filters : ChangeFilter(v)
  \/ \E v \in Sorts : ChangeSort(v)
  \/ \E ds \in Datasources : ReplaceFetch(ds)
  \/ ClearFetch
  \/ \E i \in 1..MaxFetches : SettleUpdate(i)

Spec == Init /\ [][Next]_vars

-----------------------------------------------------------------------------
(* Reactive controller: properties *)

Range(seq) == { seq[i] : i \in DOMAIN seq }

IsResetPayload(call) ==
  IF call.kind = "filter" THEN call.filter = EmptyFilter
  ELSE call.sortOrder = "ascending" /\ call.sortColumn = "null"

\* C1: every fetch.update call made by the controller targets the current fetch
\* instance, whose bound tableId equals the tableId of the datasource whose
\* subscription made the call; a filter or sort change made while the current
\* fetch is absent or bound to another tableId makes no call and raises no error.
C1_UpdateTargetsMatchingFetch ==
  /\ ~error
  /\ \A call \in Range(calls) :
       /\ call.fetch # 0
       /\ call.fetch = fetch.id
       /\ call.fetchTableId = call.subTableId
       /\ call.subTableId = datasource.tableId
  /\ (lastStep \in {"filter", "sort"}
        /\ (fetch = NoFetch \/ FetchTableId(fetch) # datasource.tableId))
     => calls = << >>

\* A filter change pushed to the second fetch instance after a datasource change
C1_Witness ==
  /\ lastStep = "filter"
  /\ Len(calls) = 1
  /\ epoch >= 2
  /\ fetch.id = 2

\* C2 (order): right after the handler of a valid datasource emission the filter
\* and the sort hold the reset values, only the two newly installed callbacks
\* have run, and what they pushed are the reset values.
C2_ResetBetweenTeardownAndInstall ==
  (lastStep = "emit" /\ isDatasourceValid(datasource)) =>
     /\ filter = EmptyFilter
     /\ sort = DefaultSort
     /\ Len(invoked) = 2
     /\ \A sub \in Range(invoked) : sub.epoch = epoch
     /\ \A call \in Range(calls) : IsResetPayload(call)
     /\ IsCorrectFetch(fetch, [tableId |-> datasource.tableId]) =>
          /\ Len(calls) = 2
          /\ firstFilterPush.pushed /\ firstFilterPush.filter = EmptyFilter
          /\ firstSortPush.pushed /\ firstSortPush.sortOrder = "ascending"
          /\ firstSortPush.sortColumn = "null"

\* C2 as stated: the order above, and the first filter value and the first sort
\* value pushed to a fetch after a datasource emission are the reset values.
C2_FirstPushIsReset ==
  /\ C2_ResetBetweenTeardownAndInstall
  /\ firstFilterPush.pushed => firstFilterPush.filter = EmptyFilter
  /\ firstSortPush.pushed =>
       firstSortPush.sortOrder = "ascending" /\ firstSortPush.sortColumn = "null"

\* C2 as amended: the order above, and every filter or sort value pushed to a
\* fetch was set during or after the latest datasource emission (it is the reset
\* value or a later change), never a value set under the previous datasource.
C2_PushedValuesAreCurrent ==
  /\ C2_ResetBetweenTeardownAndInstall
  /\ \A call \in Range(calls) : call.valEpoch = epoch

\* A datasource switch that pushed both reset values to the matching fetch
C2_Witness ==
  /\ lastStep = "emit"
  /\ epoch >= 2
  /\ Len(calls) = 2
  /\ \A call \in Range(calls) : IsResetPayload(call)

\* C3: the controller holds exactly two live subscriptions (one on filter, one
\* on sort) while the latest datasource is valid and none while it is invalid;
\* a callback installed for an earlier emission never runs after a later one,
\* and no update is made while the controller is inactive.
C3_SubscriptionsRebuiltNotLeaked ==
  /\ isDatasourceValid(datasource) =>
       /\ Len(filterSubs) = 1 /\ Len(sortSubs) = 1
       /\ Len(unsubscribers) = 2
       /\ Range(unsubscribers) = Range(filterSubs) \cup Range(sortSubs)
  /\ ~isDatasourceValid(datasource) =>
       /\ filterSubs = << >> /\ sortSubs = << >> /\ unsubscribers = << >>
       /\ calls = << >> /\ invoked = << >>
  /\ \A sub \in Range(filterSubs) \cup Range(sortSubs) \cup Range(invoked) :
       sub.epoch = epoch

\* After three emissions a filter change runs the one live filter callback
C3_Witness ==
  /\ epoch = 3
  /\ lastStep = "filter"
  /\ isDatasourceValid(datasource)
  /\ Len(invoked) = 1

\* C4: the controller never calls update on a fetch instance while an update
\* it made to that same instance is still outstanding.
C4_OneUpdateInFlight ==
  \A call \in Range(calls) : call.pendingBefore = 0

-----------------------------------------------------------------------------
(* Query fetch: getData *)

\* Faulty variant: the page parameter is not looked at
determineFeatureFlagsNoPageParam(def) ==
  [supportsPagination |->
     /\ ~def.isNull /\ def.hasFields /\ def.hasPagination
     /\ def.type \notin {"undefined", ""}
     /\ def.location \notin {"undefined", ""}]

\* QueryFetch.js:6-12
determineFeatureFlags(def) ==
  [supportsPagination |->
     /\ ~def.isNull /\ def.hasFields /\ def.hasPagination
     /\ def.type \notin {"undefined", ""}
     /\ def.location \notin {"undefined", ""}
     /\ def.pageParam \notin {"undefined", ""}]

\* this.features, derived from the definition held by the store
Features == determineFeatureFlags(definition)

\* definition?.fields?.pagination?.type
PaginationType(def) == IF def.isNull THEN "undefined" ELSE def.type

\* datasource?.queryParams || {}
StaticParams(ds) ==
  IF ds.isNull \/ ~ds.hasQueryParams THEN NoParams ELSE ds.queryParams

\* Helpers.cloneDeep: a copy that shares nothing with the original
cloneDeep(obj) == [value |-> obj, shared |-> FALSE]

\* QueryFetch.js:69-71, one turn of the loop
ApplyDefault(parameters, param) ==
  IF ~Truthy(parameters[param.name])
  THEN [parameters EXCEPT ![param.name] = param.default]
  ELSE parameters

\* QueryFetch.js:68-72
RECURSIVE ApplyDefaults(_, _)
ApplyDefaults(parameters, params) ==
  IF params = << >> THEN parameters
  ELSE ApplyDefaults(ApplyDefault(parameters, Head(params)), Tail(params))

\* "for (let param of datasource?.parameters || {})": an object literal is not
\* iterable, so the loop raises a TypeError when there is no parameter list
ParametersIterable(ds) == ~ds.isNull /\ ds.hasParameters

\* QueryFetch.js:67-72: the request parameters, and the datasource's own
\* queryParams object as the loop leaves it
BuildParameters(ds) ==
  LET copy == cloneDeep(StaticParams(ds))
      parameters == ApplyDefaults(copy.value, ds.parameters)
  IN [parameters |-> parameters,
      queryParams |-> IF copy.shared /\ ~ds.isNull /\ ds.hasQueryParams
                      THEN parameters ELSE ds.queryParams]

\* QueryFetch.js:77
RequestCursor(type, cur) ==
  IF type = "page" THEN parseInt(Or(cur, Num(1))) ELSE cur

\* QueryFetch.js:75-79
QueryPayload(ds, parameters, paginated, type, cur, limit) ==
  [queryId |-> IF ds.isNull THEN "undefined" ELSE ds.id,
   parameters |-> parameters,
   hasPagination |-> paginated,
   page |-> IF paginated THEN RequestCursor(type, cur) ELSE Undefined,
   limit |-> IF paginated THEN limit ELSE 0]

\* page + 1 on JavaScript numbers
PlusOne(v) == IF v.t = "number" THEN Num(v.n + 1) ELSE NaN

\* Faulty variant: the page number is returned without being incremented
PageNextCursorSame(page) == page

\* QueryFetch.js:94
PageNextCursor(page) == PlusOne(page)

\* Faulty variant: the limit is not required to be positive
PageHasNextPageAnyLimit(res, limit) == res.hasData /\ Len(res.data) = limit

\* QueryFetch.js:95, data?.length === limit && limit > 0
PageHasNextPage(res, limit) ==
  /\ res.hasData
  /\ Len(res.data) = limit
  /\ limit > 0

\* QueryFetch.js:98, pagination?.cursor
ResponseCursor(res) == IF res.hasPagination THEN res.cursor ELSE Undefined

\* QueryFetch.js:99, nextCursor != null
CursorHasNextPage(nextCursor) == ~IsNullish(nextCursor)

\* Faulty variant: the failure is passed on to the caller
getDataCatchRethrow ==
  [status |-> "rejected", rows |-> << >>, cursor |-> Undefined,
   hasNextPage |-> FALSE]

\* QueryFetch.js:109-114
getDataCatch ==
  [status |-> "resolved", rows |-> << >>, cursor |-> Undefined,
   hasNextPage |-> FALSE]

\* QueryFetch.js:84-108: the page result derived from the response
getDataReturn(call, res, limit) ==
  IF res.isNull THEN getDataCatch  \* destructuring nothing throws inside the try
  ELSE
    [status |-> "resolved",
     rows |-> IF res.hasData THEN res.data ELSE << >>,
     cursor |-> IF ~call.paginated THEN Null
                ELSE IF call.type = "page" THEN PageNextCursor(call.payload.page)
                ELSE ResponseCursor(res),
     hasNextPage |-> IF ~call.paginated THEN FALSE
                     ELSE IF call.type = "page" THEN PageHasNextPage(res, limit)
                     ELSE CursorHasNextPage(ResponseCursor(res))]

\* A QueryFetch instance before its first getData: any datasource, limit and
\* paginate option, any definition, no cursor
DataInit ==
  /\ options \in [datasource : QueryDatasources, limit : Limits, paginate : BOOLEAN]
  /\ definition \in Definitions
  /\ cursor = Null
  /\ pc = "idle"
  /\ inflight = NoCall
  /\ result = NoResult
  /\ chain = << >>
  /\ fresh = TRUE

\* The reactive controller is not running while the query fetch is studied
CtlParked ==
  /\ datasource = NoDatasource
  /\ fetch = NoFetch
  /\ nextFetchId = 1
  /\ filter = Ctl0.filter
  /\ sort = Ctl0.sort
  /\ filterSubs = Ctl0.filterSubs
  /\ sortSubs = Ctl0.sortSubs
  /\ unsubscribers = Ctl0.unsubscribers
  /\ pending = Ctl0.pending
  /\ error = Ctl0.error
  /\ epoch = Ctl0.epoch
  /\ filterEpoch = Ctl0.filterEpoch
  /\ sortEpoch = Ctl0.sortEpoch
  /\ calls = Ctl0.calls
  /\ invoked = Ctl0.invoked
  /\ firstFilterPush = Ctl0.firstFilterPush
  /\ firstSortPush = Ctl0.firstSortPush
  /\ lastStep = "parked"

InitData == CtlParked /\ DataInit /\ TravParked /\ DefParked /\ AdParked

\* getData up to its await (QueryFetch.js:58-83): the request is built and
\* dispatched, or the parameter loop throws and the call rejects
getDataCallStep ==
  /\ pc \in {"idle", "done"}
  /\ LET ds == options.datasource
         type == PaginationType(definition)
         paginated == options.paginate /\ Features.supportsPagination
         built == BuildParameters(ds)
         call == [called |-> TRUE, sent |-> FALSE, api |-> "none",
                  payload |-> NoPayload, type |-> type, paginated |-> paginated,
                  callCursor |-> cursor, fresh |-> fresh,
                  hadParameters |-> ParametersIterable(ds),
                  suppliedParams |-> StaticParams(ds),
                  queryParamsBefore |-> ds.queryParams,
                  response |-> NoResponse]
     IN IF ~ParametersIterable(ds)
        THEN /\ inflight' = call
             /\ result' = [NoResult EXCEPT !.status = "rejected"]
             /\ pc' = "done"
             /\ UNCHANGED options
        ELSE /\ inflight' = [call EXCEPT
                  !.sent = TRUE, !.api = "pending",
                  !.payload = QueryPayload(ds, built.parameters, paginated, type,
                                           cursor, options.limit)]
             /\ result' = NoResult
             /\ pc' = "awaiting"
             /\ options' = [options EXCEPT !.datasource.queryParams = built.queryParams]
  /\ fresh' = FALSE
  /\ UNCHANGED <<definition, cursor, chain>>

\* executeQuery resolves with res; getData derives the page result
executeQueryResolvesStep(res) ==
  /\ pc = "awaiting"
  /\ LET r == getDataReturn(inflight, res, options.limit) IN
       /\ result' = r
       /\ chain' = IF /\ ~res.isNull /\ inflight.paginated /\ inflight.type = "page"
                      /\ inflight.fresh /\ r.cursor.t = "number"
                   THEN Append(chain, r.cursor.n) ELSE chain
  /\ inflight' = [inflight EXCEPT !.api = "fulfilled", !.response = res]
  /\ pc' = "done"
  /\ UNCHANGED <<options, definition, cursor, fresh>>

\* executeQuery fails; getData catches the failure
executeQueryFailsStep ==
  /\ pc = "awaiting"
  /\ result' = getDataCatch
  /\ inflight' = [inflight EXCEPT !.api = "rejected"]
  /\ pc' = "done"
  /\ UNCHANGED <<options, definition, cursor, chain, fresh>>

\* The caller asks for the next page: the returned cursor becomes the current one
nextPageStep ==
  /\ pc = "done"
  /\ result.status = "resolved"
  /\ result.hasNextPage
  /\ result.cursor.t = "number" => result.cursor.n <= MaxPage
  /\ cursor' = result.cursor
  /\ fresh' = TRUE
  /\ pc' = "idle"
  /\ UNCHANGED <<options, definition, inflight, result, chain>>

getDataCall == getDataCallStep /\ UNCHANGED notDataVars

executeQueryResolves(res) == executeQueryResolvesStep(res) /\ UNCHANGED notDataVars

executeQueryFails == executeQueryFailsStep /\ UNCHANGED notDataVars

nextPage == nextPageStep /\ UNCHANGED notDataVars

NextData ==
  \/ getDataCall
  \/ \E res \in Responses : executeQueryResolves(res)
  \/ executeQueryFails
  \/ nextPage

SpecData == InitData /\ [][NextData]_vars

-----------------------------------------------------------------------------
(* Query fetch: properties *)

\* The last getData call was answered by the service with an object
Succeeded == pc = "done" /\ inflight.api = "fulfilled" /\ ~inflight.response.isNull

\* The call ran with pagination enabled and supported, of the given kind
PaginatedAs(kind) == inflight.called /\ inflight.paginated /\ inflight.type = kind

StrictlyIncreasing(seq) ==
  \A i, j \in DOMAIN seq : i < j => seq[i] < seq[j]

\* C5: with page-kind pagination getData requests page N = the current cursor,
\* or 1 when there is no cursor, and on success returns N + 1; so the cursors
\* returned by successive fetches that are each fed back strictly increase.
C5_PageCursorAdvances ==
  /\ (PaginatedAs("page") /\ inflight.sent) =>
       inflight.payload.page =
         IF IsNullish(inflight.callCursor) THEN Num(1) ELSE inflight.callCursor
  /\ (PaginatedAs("page") /\ Succeeded) =>
       /\ inflight.payload.page.t = "number"
       /\ result.cursor = Num(inflight.payload.page.n + 1)
  /\ StrictlyIncreasing(chain)

\* Three successive page fetches, each fed the cursor the one before returned
C5_Witness ==
  /\ PaginatedAs("page") /\ Succeeded
  /\ chain = <<2, 3, 4>>
  /\ inflight.callCursor = Num(3)

\* C6: with page-kind pagination a successful getData returns hasNextPage = TRUE
\* exactly when the number of rows returned equals the limit and the limit is
\* positive.
C6_PageHasNextIffFullPage ==
  (PaginatedAs("page") /\ Succeeded) =>
     (result.hasNextPage <=>
        (Len(result.rows) = options.limit /\ options.limit > 0))

\* A full page (as many rows as the limit) answered with hasNextPage
C6_Witness ==
  /\ PaginatedAs("page") /\ Succeeded
  /\ options.limit = MaxLimit
  /\ Len(result.rows) = MaxLimit
  /\ result.hasNextPage

\* C7: with cursor-kind pagination a successful getData returns the cursor of
\* the response, and hasNextPage = TRUE exactly when that cursor is present:
\* neither null, nor absent, nor empty.
C7_CursorHasNextIffPresent ==
  (PaginatedAs("cursor") /\ Succeeded) =>
     /\ result.cursor = ResponseCursor(inflight.response)
     /\ result.hasNextPage <=>
          /\ ~IsNullish(ResponseCursor(inflight.response))
          /\ ResponseCursor(inflight.response) # Str("")

\* C8: when the execution service fails getData resolves with no rows and
\* hasNextPage = FALSE, whatever the pagination kind, paginate flag and cursor.
C8_FailureGivesEmptyPage ==
  (pc = "done" /\ inflight.api = "rejected") =>
     /\ result.status = "resolved"
     /\ result.rows = << >>
     /\ ~result.hasNextPage

\* A failure of a paginated cursor-kind request made with a cursor
C8_Witness ==
  /\ pc = "done" /\ inflight.api = "rejected"
  /\ PaginatedAs("cursor")
  /\ inflight.callCursor = Str("c1")
  /\ result.status = "resolved"

\* C9: for a datasource without a parameter list getData sends a request whose
\* parameters are the static query parameters, and resolves with a page result.
C9_ParameterListOptional ==
  (pc = "done" /\ inflight.called /\ ~options.datasource.isNull
     /\ ~options.datasource.hasParameters) =>
     /\ inflight.sent
     /\ inflight.payload.parameters = inflight.suppliedParams
     /\ result.status = "resolved"

\* C10: for every parameter of the datasource's list the request carries the
\* value the caller supplied whenever there is one (0, "" and false included)
\* and the default only when there is none; queryParams itself is not modified.
C10_DefaultsOnlyWhenAbsent ==
  (inflight.called /\ inflight.sent) =>
     /\ \A i \in DOMAIN options.datasource.parameters :
          LET param == options.datasource.parameters[i]
              supplied == inflight.suppliedParams[param.name]
          IN inflight.payload.parameters[param.name] =
               IF supplied # Undefined THEN supplied ELSE param.default
     /\ options.datasource.queryParams = inflight.queryParamsBefore

-----------------------------------------------------------------------------
(* Query definition: values *)

\* A pagination descriptor {type, location, pageParam}; the page parameter is
\* a name, or the object {limit} that enrichment synthesizes
NoDescriptor ==
  [type |-> "undefined", location |-> "undefined", pageParam |-> "undefined",
   limit |-> 0]

Descriptors ==
  { [NoDescriptor EXCEPT !.type = "cursor", !.location = "body", !.pageParam = "page"],
    [NoDescriptor EXCEPT !.type = "page", !.location = "query", !.pageParam = "page"],
    [NoDescriptor EXCEPT !.type = "page", !.location = "query"],
    [NoDescriptor EXCEPT !.type = "", !.location = "query", !.pageParam = "page"] }

\* A fields object, with or without a pagination property
NoFields == [hasPagination |-> FALSE, pagination |-> NoDescriptor]

FieldsObjects ==
  { NoFields } \cup { [hasPagination |-> TRUE, pagination |-> d] : d \in Descriptors }

\* The datasource handed to getDefinition (this.options.datasource)
DefDatasources ==
  { [isNull |-> TRUE, hasId |-> FALSE, hasFields |-> FALSE, fields |-> NoFields],
    [isNull |-> FALSE, hasId |-> FALSE, hasFields |-> TRUE, fields |-> NoFields],
    [isNull |-> FALSE, hasId |-> TRUE, hasFields |-> FALSE, fields |-> NoFields] }
  \cup { [isNull |-> FALSE, hasId |-> TRUE, hasFields |-> TRUE, fields |-> f] :
           f \in FieldsObjects }

\* What fetchQueryDefinition resolves with: nothing, or a definition object of
\* its own that has a fields object of its own ("own") or none ("none"). After
\* "definition.fields = datasource.fields" the definition refers to the
\* datasource's fields object ("shared").
NoDefObject ==
  [isNull |-> TRUE, datasourceId |-> "undefined", fieldsRef |-> "none",
   ownFields |-> NoFields]

ServedDefinitions ==
  { NoDefObject }
  \cup { [isNull |-> FALSE, datasourceId |-> id, fieldsRef |-> "none",
          ownFields |-> NoFields] : id \in {"ds1", "ds3"} }
  \cup { [isNull |-> FALSE, datasourceId |-> id, fieldsRef |-> "own",
          ownFields |-> f] : id \in {"ds1", "ds3"}, f \in FieldsObjects }

\* What getDatasources resolves with
DatasourceLists ==
  { << >>,
    << [id |-> "ds1", source |-> "MONGODB"] >>,
    << [id |-> "ds1", source |-> "POSTGRES"] >>,
    << [id |-> "ds2", source |-> "MONGODB"], [id |-> "ds1", source |-> "MONGODB"] >>,
    << [id |-> "ds1", source |-> "undefined"], [id |-> "ds1", source |-> "MONGODB"] >> }

\* The object pair (definition, datasource) that getDefinition works on
Heap(obj, ds) == [obj |-> obj, ds |-> ds]

\* definition.fields, through the reference the definition holds
FieldsOf(h) ==
  IF h.obj.fieldsRef = "own" THEN h.obj.ownFields
  ELSE IF h.obj.fieldsRef = "shared" THEN h.ds.fields
  ELSE NoFields

\* The definition as determineFeatureFlags reads it
ViewOf(h) ==
  LET f == FieldsOf(h) IN
  [isNull |-> h.obj.isNull,
   hasFields |-> ~h.obj.isNull /\ h.obj.fieldsRef # "none",
   hasPagination |-> ~h.obj.isNull /\ h.obj.fieldsRef # "none" /\ f.hasPagination,
   type |-> f.pagination.type,
   location |-> f.pagination.location,
   pageParam |-> f.pagination.pageParam]

\* definition.fields.pagination (NoDescriptor when there is none)
DescriptorOf(h) ==
  IF h.obj.isNull \/ h.obj.fieldsRef = "none" \/ ~FieldsOf(h).hasPagination
  THEN NoDescriptor ELSE FieldsOf(h).pagination

-----------------------------------------------------------------------------
(* Query definition: getDefinition and enrichPagination *)

\* QueryFetch.js:23-25: a definition without fields takes the datasource's
\* fields object itself
FieldsFallback(h) ==
  IF h.obj.fieldsRef = "none" /\ h.ds.hasFields
  THEN [h EXCEPT !.obj.fieldsRef = "shared"]
  ELSE h

\* QueryFetch.js:38, datasources.find(ds => ds._id === definition.datasourceId)
RECURSIVE Find(_, _)
Find(list, id) ==
  IF list = << >> THEN [found |-> FALSE, source |-> "undefined"]
  ELSE IF Head(list).id = id THEN [found |-> TRUE, source |-> Head(list).source]
  ELSE Find(Tail(list), id)

\* QueryFetch.js:39
NeedsSynthesizedPagination(list, id) ==
  LET ds == Find(list, id) IN ds.found /\ ds.source = "MONGODB"

\* QueryFetch.js:47-53
SynthesizedDescriptor(limit) ==
  [type |-> "page", location |-> "query", pageParam |-> "{limit}", limit |-> limit]

\* definition.fields.pagination = d: a write to the fields object the
\* definition refers to
WritePagination(h, d) ==
  IF h.obj.fieldsRef = "shared"
  THEN [h EXCEPT !.ds.fields = [hasPagination |-> TRUE, pagination |-> d]]
  ELSE [h EXCEPT !.obj.ownFields = [hasPagination |-> TRUE, pagination |-> d]]

\* QueryFetch.js:39-54: what enrichPagination does once the list has arrived
Enrich(h, list, limit) ==
  IF ~NeedsSynthesizedPagination(list, h.obj.datasourceId) THEN h
  ELSE LET h1 == IF h.obj.fieldsRef = "none"
                 THEN [h EXCEPT !.obj.fieldsRef = "own", !.obj.ownFields = NoFields]
                 ELSE h
       IN WritePagination(h1, SynthesizedDescriptor(limit))

\* Faulty variant: the datasource list is fetched whatever the paginate option
EnrichmentWantedAlways(ds, opts) == ~ds.isNull

\* QueryFetch.js:36, datasource && paginate
EnrichmentWanted(ds, opts) == ~ds.isNull /\ opts.paginate

\* Faulty variant: the failure is passed on to the caller
getDefinitionCatchRethrow == [status |-> "threw", isNull |-> TRUE]

\* QueryFetch.js:28-30
getDefinitionCatch == [status |-> "returned", isNull |-> TRUE]

NoApi ==
  [defCalls |-> 0, listCalls |-> 0, defOutcome |-> "none", listOutcome |-> "none",
   list |-> << >>]

NoSnapshot == [taken |-> FALSE, view |-> NoDefinition, descriptor |-> NoDescriptor,
               heap |-> Heap(NoDefObject, [isNull |-> TRUE, hasId |-> FALSE,
                                           hasFields |-> FALSE, fields |-> NoFields]),
               datasource |-> [isNull |-> TRUE, hasId |-> FALSE,
                               hasFields |-> FALSE, fields |-> NoFields]]

NoFeatures == [known |-> FALSE, supportsPagination |-> FALSE, input |-> NoDefinition]

DefInit ==
  /\ defDatasource \in DefDatasources
  /\ defOptions \in [limit : Limits, paginate : BOOLEAN]
  /\ defObject = NoDefObject
  /\ defPc = "idle"
  /\ defBefore = [NoSnapshot EXCEPT !.datasource = defDatasource]
  /\ defApi = NoApi
  /\ defResult = [status |-> "none", isNull |-> TRUE]
  /\ defFeatures = NoFeatures

InitDefn == CtlParked /\ DataParked /\ TravParked /\ DefInit /\ AdParked

notDefVars == <<ctlVars, dataVars, travVars, adVars>>

\* getDefinition up to its first await (QueryFetch.js:14-19)
getDefinitionCall ==
  /\ defPc = "idle"
  /\ IF defDatasource.isNull \/ ~defDatasource.hasId
     THEN /\ defResult' = [status |-> "returned", isNull |-> TRUE]
          /\ defPc' = "done"
          /\ UNCHANGED defApi
     ELSE /\ defApi' = [defApi EXCEPT !.defCalls = @ + 1, !.defOutcome = "pending"]
          /\ defPc' = "awaitDefinition"
          /\ UNCHANGED defResult
  /\ UNCHANGED <<defDatasource, defOptions, defObject, defBefore, defFeatures>>
  /\ UNCHANGED notDefVars

\* fetchQueryDefinition resolves with def (QueryFetch.js:19-27, 35-37)
fetchQueryDefinitionResolves(def) ==
  /\ defPc = "awaitDefinition"
  /\ IF def.isNull
     THEN \* reading definition.fields of nothing throws inside the try
          /\ defResult' = getDefinitionCatch
          /\ defPc' = "done"
          /\ defApi' = [defApi EXCEPT !.defOutcome = "fulfilled"]
          /\ UNCHANGED <<defObject, defBefore>>
     ELSE LET h == FieldsFallback(Heap(def, defDatasource)) IN
          /\ defObject' = h.obj
          /\ defBefore' = [defBefore EXCEPT !.taken = TRUE, !.view = ViewOf(h),
                                            !.descriptor = DescriptorOf(h),
                                            !.heap = h]
          /\ IF EnrichmentWanted(defDatasource, defOptions)
             THEN /\ defApi' = [defApi EXCEPT !.defOutcome = "fulfilled",
                                              !.listCalls = @ + 1,
                                              !.listOutcome = "pending"]
                  /\ defPc' = "awaitDatasources"
                  /\ UNCHANGED defResult
             ELSE /\ defApi' = [defApi EXCEPT !.defOutcome = "fulfilled"]
                  /\ defResult' = [status |-> "returned", isNull |-> FALSE]
                  /\ defPc' = "done"
  /\ UNCHANGED <<defDatasource, defOptions, defFeatures>>
  /\ UNCHANGED notDefVars

\* fetchQueryDefinition fails
fetchQueryDefinitionFails ==
  /\ defPc = "awaitDefinition"
  /\ defApi' = [defApi EXCEPT !.defOutcome = "rejected"]
  /\ defResult' = getDefinitionCatch
  /\ defPc' = "done"
  /\ UNCHANGED <<defDatasource, defOptions, defObject, defBefore, defFeatures>>
  /\ UNCHANGED notDefVars

\* getDatasources resolves with list (QueryFetch.js:37-54, 27)
getDatasourcesResolves(list) ==
  /\ defPc = "awaitDatasources"
  /\ LET h == Enrich(Heap(defObject, defDatasource), list, defOptions.limit) IN
       /\ defObject' = h.obj
       /\ defDatasource' = h.ds
  /\ defApi' = [defApi EXCEPT !.listOutcome = "fulfilled", !.list = list]
  /\ defResult' = [status |-> "returned", isNull |-> FALSE]
  /\ defPc' = "done"
  /\ UNCHANGED <<defOptions, defBefore, defFeatures>>
  /\ UNCHANGED notDefVars

\* getDatasources fails
getDatasourcesFails ==
  /\ defPc = "awaitDatasources"
  /\ defApi' = [defApi EXCEPT !.listOutcome = "rejected"]
  /\ defResult' = getDefinitionCatch
  /\ defPc' = "done"
  /\ UNCHANGED <<defDatasource, defOptions, defObject, defBefore, defFeatures>>
  /\ UNCHANGED notDefVars

\* The definition getDefinition returned, as its caller reads it
ReturnedView ==
  IF defResult.isNull THEN NoDefinition ELSE ViewOf(Heap(defObject, defDatasource))

\* The caller derives the feature flags from the returned definition
negotiateFeatures ==
  /\ defPc = "done"
  /\ defResult.status = "returned"
  /\ defFeatures' = [known |-> TRUE,
                     supportsPagination |->
                       determineFeatureFlags(ReturnedView).supportsPagination,
                     input |-> ReturnedView]
  /\ defPc' = "negotiated"
  /\ UNCHANGED <<defDatasource, defOptions, defObject, defBefore, defApi, defResult>>
  /\ UNCHANGED notDefVars

NextDefn ==
  \/ getDefinitionCall
  \/ \E def \in ServedDefinitions : fetchQueryDefinitionResolves(def)
  \/ fetchQueryDefinitionFails
  \/ \E list \in DatasourceLists : getDatasourcesResolves(list)
  \/ getDatasourcesFails
  \/ negotiateFeatures

SpecDefn == InitDefn /\ [][NextDefn]_vars

-----------------------------------------------------------------------------
(* Query definition: properties *)

\* The values a declared attribute of a pagination descriptor can hold
DeclaredValues == {"page", "cursor", "query", "body", "{limit}"}

AllThreeDeclared(v) ==
  /\ ~v.isNull /\ v.hasFields /\ v.hasPagination
  /\ v.type \in DeclaredValues
  /\ v.location \in DeclaredValues
  /\ v.pageParam \in DeclaredValues

GetDefinitionOver == defPc \in {"done", "negotiated"}

\* C11: determineFeatureFlags answers supportsPagination = TRUE exactly when the
\* definition declares a pagination type, location and page parameter together,
\* FALSE when any is missing (a null definition or no fields object included),
\* and leaves the definition as it was.
C11_SupportsPaginationIffAllThree ==
  defFeatures.known =>
     /\ defFeatures.supportsPagination <=> AllThreeDeclared(defFeatures.input)
     /\ ReturnedView = defFeatures.input

\* A partial declaration (type and location, no page parameter) is negotiated
C11_Witness ==
  /\ defFeatures.known
  /\ defFeatures.input.hasPagination
  /\ defFeatures.input.type = "page"
  /\ defFeatures.input.pageParam = "undefined"
  /\ ~defFeatures.supportsPagination

\* C12: enrichment applied a second time changes nothing, and enrichment keeps
\* every pagination attribute (type, location, page parameter) the definition
\* had already declared.
C12_EnrichmentIdempotentAdditive ==
  (GetDefinitionOver /\ defApi.listOutcome = "fulfilled") =>
     LET now == Heap(defObject, defDatasource) IN
       /\ Enrich(now, defApi.list, defOptions.limit) = now
       /\ \A attr \in {"type", "location", "pageParam"} :
            defBefore.descriptor[attr] \in DeclaredValues =>
               DescriptorOf(now)[attr] = defBefore.descriptor[attr]

\* C13: the datasource handed to getDefinition, its fields object included, is
\* after getDefinition as it was before.
C13_DatasourceUntouched ==
  GetDefinitionOver => defDatasource = defBefore.datasource

\* C14: with paginate = FALSE the datasource list is never asked for, the
\* pagination descriptor stays as fetched, and negotiation answers as it would
\* on the definition before enrichment.
C14_NoEnrichmentWithoutPaginate ==
  (GetDefinitionOver /\ ~defOptions.paginate /\ ~defResult.isNull) =>
     LET now == Heap(defObject, defDatasource) IN
       /\ defApi.listCalls = 0
       /\ now = defBefore.heap
       /\ DescriptorOf(now) = defBefore.descriptor
       /\ defFeatures.known =>
            defFeatures.supportsPagination = AllThreeDeclared(defBefore.view)

\* A definition of the datasource that would be enriched, fetched without paginate
C14_Witness ==
  /\ defPc = "negotiated"
  /\ ~defOptions.paginate
  /\ ~defResult.isNull
  /\ defObject.datasourceId = "ds1"
  /\ defObject.fieldsRef = "shared"

\* C15: getDefinition never throws; it returns null without calling a service
\* when the datasource has no identifier, and returns null when the definition
\* request or the datasource-listing request fails.
C15_FailuresGiveNull ==
  /\ defResult.status # "threw"
  /\ GetDefinitionOver =>
       /\ defResult.status = "returned"
       /\ (defDatasource.isNull \/ ~defDatasource.hasId) =>
            defResult.isNull /\ defApi.defCalls = 0 /\ defApi.listCalls = 0
       /\ defApi.defOutcome = "rejected" => defResult.isNull
       /\ defApi.listOutcome = "rejected" => defResult.isNull

\* The listing request made during enrichment failed
C15_Witness ==
  /\ defPc = "done"
  /\ defApi.listOutcome = "rejected"
  /\ defResult.isNull

-----------------------------------------------------------------------------
(* Backend adapter: values *)

\* Rows the backend holds
MaxTotal == 3

\* limit = query.pagination?.limit || 100
DefaultLimit == 100

\* maxRecords: query.numRecords || 100
DefaultMaxRecords == 100

Min(a, b) == IF a <= b THEN a ELSE b
Max(a, b) == IF a >= b THEN a ELSE b

\* Number.prototype.toString of a natural number
DecimalDigits == <<"0", "1", "2", "3", "4", "5", "6", "7", "8", "9">>

RECURSIVE NumToString(_)
NumToString(k) ==
  IF k < 10 THEN DecimalDigits[k + 1]
  ELSE NumToString(k \div 10) \o DecimalDigits[(k % 10) + 1]

\* `${value}`: ToString of a value inside a template literal
TemplateString(v) ==
  CASE v.t = "string" -> v.s
    [] v.t = "number" -> NumToString(v.n)
    [] v.t = "boolean" -> IF v.n = 1 THEN "true" ELSE "false"
    [] v.t = "null" -> "null"
    [] v.t = "NaN" -> "NaN"
    [] OTHER -> "undefined"

\* a * b and a - b on numbers, NaN when an operand is NaN
Times(a, b) ==
  IF a.t = "number" /\ b.t = "number" THEN Num(a.n * b.n) ELSE NaN

Minus(a, b) ==
  IF a.t = "number" /\ b.t = "number" THEN Num(a.n - b.n) ELSE NaN

\* a <= b: false when an operand is NaN
LessEq(a, b) == a.t = "number" /\ b.t = "number" /\ a.n <= b.n

\* a ?? b
Coalesce(a, b) == IF IsNullish(a) THEN b ELSE a

\* ToIntegerOrInfinity of a slice argument: NaN counts as 0
SliceIndex(v, len) ==
  LET k == IF v.t = "number" THEN v.n ELSE 0 IN
    IF k < 0 THEN Max(len + k, 0) ELSE Min(k, len)

\* Array.prototype.slice(start, end)
Slice(seq, start, end) ==
  LET from == SliceIndex(start, Len(seq))
      to == SliceIndex(end, Len(seq))
  IN IF to <= from THEN << >> ELSE SubSeq(seq, from + 1, to)

\* String.prototype.toLowerCase
UpperCase == "ABCDEFGHIJKLMNOPQRSTUVWXYZ"
LowerCase == "abcdefghijklmnopqrstuvwxyz"

LowerChar(ch) ==
  LET at == { i \in 1..Len(UpperCase) : SubSeq(UpperCase, i, i) = ch } IN
    IF at = {} THEN ch
    ELSE LET i == CHOOSE i \in at : TRUE IN SubSeq(LowerCase, i, i)

RECURSIVE toLowerCase(_)
toLowerCase(s) ==
  IF Len(s) = 0 THEN ""
  ELSE LowerChar(SubSeq(s, 1, 1)) \o toLowerCase(SubSeq(s, 2, Len(s)))

\* String.prototype.replace(pattern, by) with a string pattern: the first
\* occurrence only
Replace(s, pattern, by) ==
  LET at == { i \in 1..(Len(s) - Len(pattern) + 1) :
                SubSeq(s, i, i + Len(pattern) - 1) = pattern } IN
    IF at = {} THEN s
    ELSE LET i == CHOOSE i \in at : \A j \in at : i <= j IN
           SubSeq(s, 1, i - 1) \o by \o SubSeq(s, i + Len(pattern), Len(s))

\* params.pagination.sort: {order, column}
NoSortRequest == [present |-> FALSE, order |-> Undefined, column |-> Undefined]

SortRequests ==
  { NoSortRequest,
    [present |-> TRUE, order |-> Str("Ascending"), column |-> Str("name")],
    [present |-> TRUE, order |-> Str("descending"), column |-> Undefined] }

\* pagination.bookmark as the caller may send it
Bookmarks ==
  { Undefined, Null, Num(0), Num(2), Str("1"), Str("2"), Str("3"), Str("abc") }

\* pagination.limit as the caller may send it
PageLimits == { Undefined, Num(0) } \cup { Num(k) : k \in 1..MaxLimit }

\* PaginationRequest: {bookmark, limit, sort}; not present: undefined
NoPagination ==
  [present |-> FALSE, bookmark |-> Undefined, limit |-> Undefined,
   sort |-> NoSortRequest]

Paginations ==
  { NoPagination }
  \cup { [present |-> TRUE, bookmark |-> b, limit |-> l, sort |-> NoSortRequest] :
           b \in Bookmarks, l \in PageLimits }
  \cup { [present |-> TRUE, bookmark |-> Str("2"), limit |-> Num(1), sort |-> s] :
           s \in SortRequests }

\* The sort of a select: a list of {field, direction}
NoSortList == << >>

\* The query read receives: {table, numRecords, view, sort, filterByFormula,
\* pagination}; hasSort and hasFilter say whether the key is there
AdapterQueries ==
  [table : {"t1"},
   numRecords : {Undefined, Num(2)},
   hasSort : {FALSE}, sort : {NoSortList},
   hasFilter : {FALSE}, filterByFormula : {""},
   pagination : Paginations]
  \cup
  [table : {"t1"},
   numRecords : {Undefined},
   hasSort : {TRUE}, sort : {<<[field |-> "age", direction |-> "desc"]>>},
   hasFilter : {TRUE}, filterByFormula : {"x='0'"},
   pagination : {NoPagination}]

\* The query search receives: pagination comes from params
OriginalQueries == { q \in AdapterQueries : ~q.pagination.present }

\* params.filters.equal in the order Object.entries gives
EqualSets ==
  { << >>,
    <<[key |-> "a", value |-> Num(1)]>>,
    <<[key |-> "a", value |-> Num(1)], [key |-> "b", value |-> Str("x")]>>,
    <<[key |-> "b", value |-> Num(12)], [key |-> "c", value |-> Bool(TRUE)],
      [key |-> "a", value |-> Str("")]>> }

\* params.filters: absent, without equal, or with an equal object
NoFilters == [present |-> FALSE, hasEqual |-> FALSE, equal |-> << >>]

FilterObjects ==
  { NoFilters, [NoFilters EXCEPT !.present = TRUE] }
  \cup { [present |-> TRUE, hasEqual |-> TRUE, equal |-> e] : e \in EqualSets }

SearchParamObjects ==
  [filters : FilterObjects,
   pagination : { p \in Paginations : p.bookmark \in {Undefined, Str("2")}
                                       /\ p.limit \in {Undefined, Num(1)} }]
  \cup [filters : {NoFilters}, pagination : Paginations]

NoSearchParams == [filters |-> NoFilters, pagination |-> NoPagination]

NoAdapterQuery ==
  [table |-> "", numRecords |-> Undefined, hasSort |-> FALSE,
   sort |-> NoSortList, hasFilter |-> FALSE, filterByFormula |-> "",
   pagination |-> NoPagination]

\* A record of the table: {id, fields}
Record(i) == [id |-> i, fields |-> [row |-> i]]

\* The records the backend holds, in the order of the select
BackendRecords(total) == [i \in 1..total |-> Record(i)]

\* The errors the backend answers a request with
NoError == [kind |-> "none", message |-> Undefined]

TableNotFound(table, base) ==
  [kind |-> "tableNotFound",
   message |-> Str("Could not find table " \o table \o " in application "
                     \o base)]

Unauthorized ==
  [kind |-> "unauthorized", message |-> Str("Authentication required")]

\* Rows on one page of the backend
PageSizes == {1, 2}

Clocks == {17, 18}
Bases == {"app1", "app2"}

BackendErrors ==
  { TableNotFound(NumToString(now), base) : now \in Clocks, base \in Bases }
  \cup { [kind |-> "tableNotFoundOtherCase",
          message |-> Str("could not find table 17 in application app1")],
         Unauthorized,
         [kind |-> "unknown", message |-> Undefined] }

NoSelect ==
  [made |-> FALSE, maxRecords |-> 0, sort |-> NoSortList, filterByFormula |-> ""]

NoAdapterResult ==
  [status |-> "none", rows |-> << >>, connected |-> FALSE, hasError |-> FALSE,
   error |-> Undefined, thrown |-> NoError, value |-> "none"]

-----------------------------------------------------------------------------
(* Backend adapter: search, read, create, update, delete, testConnection *)

\* params?.pagination?.sort?.order?.toLowerCase().replace("ending", "")
SortOrder(params) ==
  LET order == IF params.pagination.present /\ params.pagination.sort.present
               THEN params.pagination.sort.order ELSE Undefined
  IN IF IsNullish(order) THEN Undefined
     ELSE Str(Replace(toLowerCase(order.s), "ending", ""))

\* params?.pagination?.sort?.column
SortColumn(params) ==
  IF params.pagination.present /\ params.pagination.sort.present
  THEN params.pagination.sort.column ELSE Undefined

\* if (sortOrder && sortColumn) originalQuery = {...originalQuery, sort: [...]}
WithSort(query, params) ==
  IF Truthy(SortOrder(params)) /\ Truthy(SortColumn(params))
  THEN [query EXCEPT !.hasSort = TRUE,
                     !.sort = <<[field |-> SortColumn(params).s,
                                 direction |-> SortOrder(params).s]>>]
  ELSE query

\* Object.entries(params.filters?.equal || {})
EqualEntries(params) ==
  IF params.filters.present /\ params.filters.hasEqual
  THEN params.filters.equal ELSE << >>

\* for (let [key, value] of ...) filterByFormula += `${key}='${value}',`
RECURSIVE AppendPairs(_, _)
AppendPairs(formula, entries) ==
  IF entries = << >> THEN formula
  ELSE AppendPairs(formula \o entries[1].key \o "='"
                     \o TemplateString(entries[1].value) \o "',",
                   Tail(entries))

\* A slip: the AND wrapper put around a single pair as well
NeedsAndWrapperFromOne(entries) == Len(entries) > 0

\* if (Object.entries(params.filters?.equal || {}).length > 1)
NeedsAndWrapper(entries) == Len(entries) > 1

\* The formula search writes, given the pairs appended with trailing commas
FilterFormula(appended, entries) ==
  LET stripped == SubSeq(appended, 1, Len(appended) - 1) IN
    IF NeedsAndWrapper(entries) THEN "AND(" \o stripped \o ")" ELSE stripped

\* if (filterByFormula.length > 0) originalQuery = {..., filterByFormula}
WithFilter(query, params) ==
  LET appended == AppendPairs("", EqualEntries(params)) IN
    IF Len(appended) > 0
    THEN [query EXCEPT !.hasFilter = TRUE,
                       !.filterByFormula =
                          FilterFormula(appended, EqualEntries(params))]
    ELSE query

\* The query search hands to read
SearchQuery(originalQuery, params) ==
  [WithFilter(WithSort(originalQuery, params), params)
     EXCEPT !.pagination = params.pagination]

\* select({maxRecords, view, sort, filterByFormula})
SelectParams(query) ==
  [made |-> TRUE,
   maxRecords |-> Or(query.numRecords, Num(DefaultMaxRecords)).n,
   sort |-> IF query.hasSort THEN query.sort ELSE NoSortList,
   filterByFormula |-> IF query.hasFilter THEN query.filterByFormula ELSE ""]

\* parseInt(query.pagination?.bookmark ?? "1")
BookmarkOf(query) ==
  parseInt(Coalesce(IF query.pagination.present
                    THEN query.pagination.bookmark ELSE Undefined,
                    Str("1")))

\* query.pagination?.limit || 100
LimitOf(query) ==
  Or(IF query.pagination.present THEN query.pagination.limit ELSE Undefined,
     Num(DefaultLimit))

\* A slip: the bookmark taken as the page whatever it is
PageOfUnclamped(bookmark) == bookmark

\* bookmark <= 1 ? 1 : bookmark
PageOf(bookmark) == IF LessEq(bookmark, Num(1)) THEN Num(1) ELSE bookmark

\* page * limit - limit
OffsetOf(page, limit) == Minus(Times(page, limit), limit)

\* records.map(({ fields }) => fields)
MapFields(records) == [i \in DOMAIN records |-> records[i].fields]

\* processRecords: what the promise of read resolves with
processRecords(records, query) ==
  LET limit == LimitOf(query)
      page == PageOf(BookmarkOf(query))
      offset == OffsetOf(page, limit)
  IN Slice(MapFields(records), offset, Times(limit, page))

\* The rows the select delivers: the matching rows, maxRecords at most
Offered(backend) == Min(backend.total, backend.select.maxRecords)

\* A slip: the error of a failed write swallowed
createCatchSwallow(err) == [NoAdapterResult EXCEPT !.status = "returned"]

\* create: catch (err) { console.error(...); throw err }
createCatch(err) == [NoAdapterResult EXCEPT !.status = "threw", !.thrown = err]

\* update: catch (err) { console.error(...); throw err }
updateCatch(err) == [NoAdapterResult EXCEPT !.status = "threw", !.thrown = err]

\* delete: catch (err) { console.error(...); throw err }
deleteCatch(err) == [NoAdapterResult EXCEPT !.status = "threw", !.thrown = err]

\* read: catch (err) { console.error(...); return [] }
readCatch == [NoAdapterResult EXCEPT !.status = "returned", !.rows = << >>]

\* A slip: any "Could not find table" message taken for the probe's own
testConnectionCatchAnyTable(e, mockTable, base) ==
  IF e.message.t = "string"
     /\ SubSeq(e.message.s, 1, Len("Could not find table"))
          = "Could not find table"
  THEN [NoAdapterResult EXCEPT !.status = "returned", !.connected = TRUE]
  ELSE [NoAdapterResult EXCEPT !.status = "returned", !.connected = FALSE,
                               !.hasError = TRUE, !.error = e.message]

\* testConnection: catch (e) { message of this probe ? connected : error }
testConnectionCatch(e, mockTable, base) ==
  IF e.message = Str("Could not find table " \o mockTable
                       \o " in application " \o base)
  THEN [NoAdapterResult EXCEPT !.status = "returned", !.connected = TRUE]
  ELSE [NoAdapterResult EXCEPT !.status = "returned", !.connected = FALSE,
                               !.hasError = TRUE, !.error = e.message]

NoOperation ==
  [name |-> "none", original |-> NoAdapterQuery, params |-> NoSearchParams,
   query |-> NoAdapterQuery, mockTable |-> "", request |-> "none",
   backendError |-> NoError]

\* An adapter constructed over a backend; no operation called yet
AdInit ==
  /\ adOp = NoOperation
  /\ adPc = "idle"
  /\ adRecords = << >>
  /\ adBackend \in [total : 0..MaxTotal, pageSize : PageSizes,
                    base : Bases, select : {NoSelect}, served : {0}]
  /\ adResult = NoAdapterResult
  /\ adLog = 0

InitAdapter == CtlParked /\ DataParked /\ TravParked /\ DefParked /\ AdInit

notAdVars == <<ctlVars, dataVars, travVars, defVars>>

Settled(outcome) == IF outcome = NoError THEN "fulfilled" ELSE "rejected"

\* testConnection(): the probe is named after the clock
testConnectionCall(now, outcome) ==
  /\ adPc = "idle"
  /\ adOp' = [adOp EXCEPT !.name = "testConnection",
                          !.mockTable = NumToString(now),
                          !.request = Settled(outcome),
                          !.backendError = outcome]
  /\ adPc' = "done"
  /\ adResult' =
       IF outcome = NoError
       THEN [NoAdapterResult EXCEPT !.status = "returned", !.connected = TRUE]
       ELSE testConnectionCatch(outcome, NumToString(now), adBackend.base)
  /\ UNCHANGED <<adRecords, adBackend, adLog>>
  /\ UNCHANGED notAdVars

\* create(query)
createCall(outcome) ==
  /\ adPc = "idle"
  /\ adOp' = [adOp EXCEPT !.name = "create", !.request = Settled(outcome),
                          !.backendError = outcome]
  /\ adPc' = "done"
  /\ IF outcome = NoError
     THEN /\ adResult' = [NoAdapterResult EXCEPT !.status = "returned",
                                                 !.value = "created"]
          /\ adLog' = adLog
     ELSE /\ adResult' = createCatch(outcome)
          /\ adLog' = adLog + 1
  /\ UNCHANGED <<adRecords, adBackend>>
  /\ UNCHANGED notAdVars

\* update(query)
updateCall(outcome) ==
  /\ adPc = "idle"
  /\ adOp' = [adOp EXCEPT !.name = "update", !.request = Settled(outcome),
                          !.backendError = outcome]
  /\ adPc' = "done"
  /\ IF outcome = NoError
     THEN /\ adResult' = [NoAdapterResult EXCEPT !.status = "returned",
                                                 !.value = "updated"]
          /\ adLog' = adLog
     ELSE /\ adResult' = updateCatch(outcome)
          /\ adLog' = adLog + 1
  /\ UNCHANGED <<adRecords, adBackend>>
  /\ UNCHANGED notAdVars

\* delete(query)
deleteCall(outcome) ==
  /\ adPc = "idle"
  /\ adOp' = [adOp EXCEPT !.name = "delete", !.request = Settled(outcome),
                          !.backendError = outcome]
  /\ adPc' = "done"
  /\ IF outcome = NoError
     THEN /\ adResult' = [NoAdapterResult EXCEPT !.status = "returned",
                                                 !.value = "destroyed"]
          /\ adLog' = adLog
     ELSE /\ adResult' = deleteCatch(outcome)
          /\ adLog' = adLog + 1
  /\ UNCHANGED <<adRecords, adBackend>>
  /\ UNCHANGED notAdVars

\* read(query) up to the eachPage call: the select throws, or paging begins
readStep(query, throws) ==
  /\ adRecords' = << >>
  /\ IF throws
     THEN /\ adPc' = "done"
          /\ adResult' = readCatch
          /\ adLog' = adLog + 1
          /\ UNCHANGED adBackend
     ELSE /\ adPc' = "paging"
          /\ adBackend' = [adBackend EXCEPT !.select = SelectParams(query)]
          /\ UNCHANGED <<adResult, adLog>>

readCall(query, throws) ==
  /\ adPc = "idle"
  /\ adOp' = [adOp EXCEPT !.name = "read", !.query = query,
                          !.request = IF throws THEN "threw" ELSE "paging"]
  /\ readStep(query, throws)
  /\ UNCHANGED notAdVars

\* search(originalQuery, params): the query is rewritten and read
searchCall(originalQuery, params, throws) ==
  /\ adPc = "idle"
  /\ adOp' = [adOp EXCEPT !.name = "search", !.original = originalQuery,
                          !.params = params,
                          !.query = SearchQuery(originalQuery, params),
                          !.request = IF throws THEN "threw" ELSE "paging"]
  /\ readStep(SearchQuery(originalQuery, params), throws)
  /\ UNCHANGED notAdVars

\* processPage: the backend delivers the next page and is asked for another
processPage ==
  /\ adPc = "paging"
  /\ adBackend.served < Offered(adBackend)
  /\ LET n == Min(adBackend.pageSize, Offered(adBackend) - adBackend.served)
         partialRecords == SubSeq(BackendRecords(adBackend.total),
                                  adBackend.served + 1, adBackend.served + n)
     IN /\ adRecords' = adRecords \o partialRecords
        /\ adBackend' = [adBackend EXCEPT !.served = adBackend.served + n]
  /\ UNCHANGED <<adOp, adPc, adResult, adLog>>
  /\ UNCHANGED notAdVars

\* eachPage is done, no page is left: processRecords resolves the promise
eachPageDone ==
  /\ adPc = "paging"
  /\ adBackend.served = Offered(adBackend)
  /\ adOp' = [adOp EXCEPT !.request = "fulfilled"]
  /\ adPc' = "done"
  /\ adResult' = [NoAdapterResult EXCEPT
                    !.status = "returned",
                    !.rows = processRecords(adRecords, adOp.query)]
  /\ UNCHANGED <<adRecords, adBackend, adLog>>
  /\ UNCHANGED notAdVars

\* A page request fails: eachPage hands the error to processRecords, which
\* takes no argument and resolves with what has been accumulated
eachPageFails(err) ==
  /\ adPc = "paging"
  /\ adBackend.served < Offered(adBackend) \/ adBackend.served = 0
  /\ adOp' = [adOp EXCEPT !.request = "rejected", !.backendError = err]
  /\ adPc' = "done"
  /\ adResult' = [NoAdapterResult EXCEPT
                    !.status = "returned",
                    !.rows = processRecords(adRecords, adOp.query)]
  /\ UNCHANGED <<adRecords, adBackend, adLog>>
  /\ UNCHANGED notAdVars

NextAdapter ==
  \/ \E now \in Clocks, outcome \in {NoError} \cup BackendErrors :
       testConnectionCall(now, outcome)
  \/ \E outcome \in {NoError, Unauthorized} : createCall(outcome)
  \/ \E outcome \in {NoError, Unauthorized} : updateCall(outcome)
  \/ \E outcome \in {NoError, Unauthorized} : deleteCall(outcome)
  \/ \E query \in AdapterQueries, throws \in BOOLEAN : readCall(query, throws)
  \/ \E originalQuery \in OriginalQueries, params \in SearchParamObjects,
        throws \in BOOLEAN : searchCall(originalQuery, params, throws)
  \/ processPage
  \/ eachPageDone
  \/ eachPageFails(Unauthorized)

SpecAdapter == InitAdapter /\ [][NextAdapter]_vars

-----------------------------------------------------------------------------
(* Backend adapter: properties *)

\* key='value'
Equality(pair) == pair.key \o "='" \o TemplateString(pair.value) \o "'"

\* The pairs from the i-th on, each once, in order, with commas in between
RECURSIVE CommaSeparated(_, _)
CommaSeparated(entries, i) ==
  IF i = Len(entries) THEN Equality(entries[i])
  ELSE Equality(entries[i]) \o "," \o CommaSeparated(entries, i + 1)

SearchCalled == adOp.name = "search"

\* C16: search given no equality filter (absent or empty) hands read the
\* filter of the original query, adding none; given one pair, field='value'
\* without AND; given more, AND(f1='v1',f2='v2',...) with every pair once in
\* order; and in every case hands read params.pagination unchanged.
C16_SearchTranslatesEqualityFilters ==
  SearchCalled =>
     LET entries == EqualEntries(adOp.params) IN
       /\ Len(entries) = 0 =>
            /\ adOp.query.hasFilter = adOp.original.hasFilter
            /\ adOp.query.filterByFormula = adOp.original.filterByFormula
       /\ Len(entries) = 1 =>
            /\ adOp.query.hasFilter
            /\ adOp.query.filterByFormula = Equality(entries[1])
       /\ Len(entries) > 1 =>
            /\ adOp.query.hasFilter
            /\ adOp.query.filterByFormula =
                 "AND(" \o CommaSeparated(entries, 1) \o ")"
       /\ adOp.query.pagination = adOp.params.pagination
       /\ adPc # "idle" /\ adOp.request # "threw" =>
            adBackend.select.filterByFormula = adOp.query.filterByFormula

\* A search with three pairs and a pagination request has been read
C16_Witness ==
  /\ SearchCalled
  /\ adPc = "done"
  /\ adOp.query.filterByFormula = "AND(b='12',c='true',a='')"
  /\ adOp.query.pagination.present

ReadCompleted ==
  /\ adOp.name \in {"read", "search"}
  /\ adPc = "done"
  /\ adOp.request = "fulfilled"

\* The rows with indices [from, to) of the rows the select delivers
RowsBetween(from, to) ==
  LET last == Min(to, Offered(adBackend)) IN
    IF last <= from THEN << >>
    ELSE [i \in 1..(last - from) |-> [row |-> from + i]]

\* The bookmark as a number: absent counts as 1
NumericBookmark == BookmarkOf(adOp.query).t = "number"

\* max(bookmark, 1)
ClaimedPage == Max(BookmarkOf(adOp.query).n, 1)

\* limit * page - limit
ClaimedOffset == LimitOf(adOp.query).n * ClaimedPage - LimitOf(adOp.query).n

\* C17 as stated: a completed read returns the rows with indices
\* [offset, offset + limit*page) of all rows the backend delivered, where
\* page = max(bookmark, 1) and offset = limit*page - limit.
C17_WindowOffsetToOffsetPlusLimitPage ==
  (ReadCompleted /\ NumericBookmark) =>
     /\ adBackend.served = Offered(adBackend)
     /\ adResult.rows =
          RowsBetween(ClaimedOffset,
                      ClaimedOffset + LimitOf(adOp.query).n * ClaimedPage)

\* C17 amended: a completed read has accumulated every row the backend
\* delivered and returns those with indices [offset, limit*page), that is
\* [offset, offset + limit): one page of at most limit rows.
C17_WindowOffsetToLimitPage ==
  (ReadCompleted /\ NumericBookmark) =>
     /\ adBackend.served = Offered(adBackend)
     /\ Len(adRecords) = Offered(adBackend)
     /\ adResult.rows =
          RowsBetween(ClaimedOffset, LimitOf(adOp.query).n * ClaimedPage)
     /\ adResult.rows = RowsBetween(ClaimedOffset,
                                    ClaimedOffset + LimitOf(adOp.query).n)

\* The second page of one row is read out of three rows delivered over two
\* continuation pages
C17_Witness ==
  /\ ReadCompleted
  /\ adOp.query.pagination.bookmark = Str("2")
  /\ adOp.query.pagination.limit = Num(1)
  /\ adBackend.total = 3
  /\ adBackend.pageSize = 2
  /\ adResult.rows = <<[row |-> 2]>>

\* C18: create, update and delete throw the backend's error, logged once,
\* whenever the backend call fails, and return normally only when it
\* succeeds; read (and search through it) never throws, and resolves with []
\* after logging when its request throws.
C18_WritesRethrowReadsSwallow ==
  adPc = "done" =>
     /\ adOp.name \in {"create", "update", "delete"} =>
          /\ adOp.request = "rejected" =>
               /\ adResult.status = "threw"
               /\ adResult.thrown = adOp.backendError
               /\ adLog = 1
          /\ adOp.request = "fulfilled" =>
               adResult.status = "returned" /\ adLog = 0
     /\ adOp.name \in {"read", "search"} =>
          /\ adResult.status = "returned"
          /\ adOp.request = "threw" => adResult.rows = << >> /\ adLog = 1

\* A create the backend refused
C18_Witness ==
  /\ adPc = "done"
  /\ adOp.name = "create"
  /\ adOp.request = "rejected"
  /\ adResult.status = "threw"

\* The error is the backend's "table not found" for this probe and this base
IsProbeNotFound ==
  \E now \in Clocks :
     /\ adOp.mockTable = NumToString(now)
     /\ adOp.backendError = TableNotFound(NumToString(now), adBackend.base)

\* C19: testConnection always returns; {connected: true} exactly when the
\* probe request succeeded or failed with the table-not-found message of this
\* probe and base, and otherwise {connected: false, error: the raw message}.
C19_TestConnectionStructured ==
  (adPc = "done" /\ adOp.name = "testConnection") =>
     /\ adResult.status = "returned"
     /\ adResult.connected <=> (adOp.request = "fulfilled" \/ IsProbeNotFound)
     /\ adResult.connected => ~adResult.hasError
     /\ ~adResult.connected =>
          adResult.hasError /\ adResult.error = adOp.backendError.message

\* The backend answered with the table-not-found message of another probe
C19_Witness ==
  /\ adPc = "done"
  /\ adOp.name = "testConnection"
  /\ adOp.mockTable = "17"
  /\ adOp.backendError = TableNotFound("18", adBackend.base)
  /\ ~adResult.connected

-----------------------------------------------------------------------------
(* Full traversal: getData called page after page against a backend that   *)
(* holds travTotal rows                                                     *)

\* A definition that declares page-kind pagination
PageDefinition ==
  [isNull |-> FALSE, hasFields |-> TRUE, hasPagination |-> TRUE,
   type |-> "page", location |-> "query", pageParam |-> "page"]

\* The rows (p-1)*L+1 .. min(p*L, T) the backend holds for page p
BackendPage(p, L, T) ==
  LET first == (p - 1) * L + 1
      last == Min(p * L, T)
  IN IF last < first THEN << >>
     ELSE [i \in 1..(last - first + 1) |-> first + i - 1]

\* What executeQuery resolves with for a page request
BackendResponse(payload, T) ==
  [isNull |-> FALSE, hasData |-> TRUE,
   data |-> BackendPage(payload.page.n, payload.limit, T),
   hasPagination |-> FALSE, cursor |-> Undefined]

\* A QueryFetch instance with paginate on, a positive limit and no cursor,
\* over any datasource, and a backend holding up to MaxTotal rows
TravInit ==
  /\ options \in [datasource : QueryDatasources, limit : 1..MaxLimit,
                  paginate : {TRUE}]
  /\ definition = PageDefinition
  /\ cursor \in {Null, Undefined}
  /\ pc = "idle"
  /\ inflight = NoCall
  /\ result = NoResult
  /\ chain = << >>
  /\ fresh = TRUE
  /\ travTotal \in 0..MaxTotal
  /\ travReceived = << >>
  /\ travFetches = 0

InitTraverse == CtlParked /\ TravInit /\ DefParked /\ AdParked

notTravVars == <<ctlVars, defVars, adVars>>

\* The caller calls getData
traverseGetData ==
  /\ pc = "idle"
  /\ travFetches <= MaxTotal + 1
  /\ getDataCallStep
  /\ UNCHANGED travVars
  /\ UNCHANGED notTravVars

\* The backend answers the page asked for; the caller keeps the rows
traverseExecuteQuery ==
  /\ pc = "awaiting"
  /\ inflight.payload.hasPagination
  /\ inflight.payload.page.t = "number"
  /\ executeQueryResolvesStep(BackendResponse(inflight.payload, travTotal))
  /\ travReceived' = Append(travReceived, result'.rows)
  /\ travFetches' = travFetches + 1
  /\ UNCHANGED travTotal
  /\ UNCHANGED notTravVars

\* hasNextPage was true: the caller sets the cursor to the one returned
traverseNextPage ==
  /\ pc = "done"
  /\ result.status = "resolved"
  /\ result.hasNextPage
  /\ cursor' = result.cursor
  /\ fresh' = TRUE
  /\ pc' = "idle"
  /\ UNCHANGED <<options, definition, inflight, result, chain>>
  /\ UNCHANGED travVars
  /\ UNCHANGED notTravVars

NextTraverse ==
  \/ traverseGetData
  \/ traverseExecuteQuery
  \/ traverseNextPage

SpecTraverse == InitTraverse /\ [][NextTraverse]_vars

-----------------------------------------------------------------------------
(* Full traversal: properties *)

\* The loop has stopped: a call failed or reported no next page
TraversalOver ==
  pc = "done" /\ (result.status # "resolved" \/ ~result.hasNextPage)

RECURSIVE Flatten(_)
Flatten(pages) ==
  IF pages = << >> THEN << >> ELSE Head(pages) \o Flatten(Tail(pages))

TraversalExact ==
  LET L == options.limit
      T == travTotal
  IN /\ travFetches <= (T \div L) + 1
     /\ \A i \in 1..(Len(travReceived) - 1) : travReceived[i] # << >>
     /\ TraversalOver =>
          /\ travFetches = (T \div L) + 1
          /\ Flatten(travReceived) = Rows(T)
          /\ (travReceived[Len(travReceived)] = << >>) <=> (T % L = 0)

\* A traversal over a datasource that has a parameter list is exact
TraversalExactGivenParameterList ==
  ParametersIterable(options.datasource) => TraversalExact

\* C20: the traversal never makes more than floor(T/L) + 1 fetches, and when
\* it has stopped it has made exactly floor(T/L) + 1, has received rows 1..T
\* each once and in order, and only the last fetch may have returned no row,
\* which it did exactly when T is a multiple of L.
C20_TraversalTerminatesExact ==
  (travFetches > 0 \/ TraversalOver) => TraversalExact

=============================================================================
